---- MODULE Spec2Model ----
(***************************************************************************)
(* IP_lookup: the self-hosted lookup server (initDatabases and the         *)
(* /api/lookup handler), the database updater (update-db.js:               *)
(* downloadAndExtractDatabase, updateAllDatabases) and the two ways the    *)
(* updater is started (the cron service, a manual run).                    *)
(*                                                                         *)
(* Strings the code inspects character by character (the IP parameter) are *)
(* sequences of one-character strings.  A value of the JSON response is a  *)
(* record [src, v, gen]: src says where it comes from ("default" for the   *)
(* sentinels of the default result structure, a database type for a datum  *)
(* read from a record of that type's handle, "undefined" for JavaScript's  *)
(* undefined), gen is the generation of the database file the handle was   *)
(* loaded from.  The .mmdb files under data/ are kept per file name: the   *)
(* updater computes the name it writes from the type, the server opens     *)
(* literal names, and the file system may or may not tell names apart that *)
(* differ in case only.                                                    *)
(***************************************************************************)
EXTENDS Naturals, Sequences, FiniteSets, TLC

VARIABLES
    ipCountryDB, ipCityDB, ipAsnDB, \* the server's global handles
    initPc,                         \* position of initDatabases
    req, resp, got,                 \* last lookup: request, response, handle.get results
    remote,                         \* what the download URLs serve now
    archive, tempDir,               \* <type>.tar.gz and temp_<type>/, per type
    dest,                           \* the .mmdb files under data/, per file name
    fsCaseSensitive,                \* whether the file system tells Asn from ASN
    pc, cur, data, mmdbFilePath, outcome, \* per updater process
    runs,                           \* number of updater processes started so far
    faults                          \* number of failures of the environment so far

vars == <<ipCountryDB, ipCityDB, ipAsnDB, initPc, req, resp, got, remote,
          archive, tempDir, dest, fsCaseSensitive, pc, cur, data, mmdbFilePath,
          outcome, runs, faults>>

serverVars == <<ipCountryDB, ipCityDB, ipAsnDB, initPc>>
lookupVars == <<req, resp, got>>
diskVars == <<archive, tempDir, dest, fsCaseSensitive>>
updaterVars == <<pc, cur, data, mmdbFilePath, outcome, runs, faults>>

----------------------------------------------------------------------------
(* Bounds *)

\* largest number of dot-separated parts of a generated IP string
MaxParts == 5
\* generations of the remote databases: 1..MaxGen
MaxGen == 2
\* updater processes started in one behaviour
MaxRuns == 2
\* failures of the environment in one behaviour: a failed download, an archive
\* that is corrupt or has no payload, a copy that fails part-way
MaxFaults == 2

Types == <<"country", "city", "asn">>
TypeSet == {"country", "city", "asn"}

----------------------------------------------------------------------------
(* Strings *)

Str0 == <<>>
Digits == {"0", "1", "2", "3", "4", "5", "6", "7", "8", "9"}
DigitVal == [c \in Digits |->
               CASE c = "0" -> 0 [] c = "1" -> 1 [] c = "2" -> 2 [] c = "3" -> 3
                 [] c = "4" -> 4 [] c = "5" -> 5 [] c = "6" -> 6 [] c = "7" -> 7
                 [] c = "8" -> 8 [] c = "9" -> 9]

\* the character of s at position k, "" past the end
At(s, k) == IF k >= 1 /\ k <= Len(s) THEN s[k] ELSE ""

\* the character class [lo-hi] of the regular expression
InClass(c, lo, hi) == c \in Digits /\ DigitVal[c] >= lo /\ DigitVal[c] <= hi

----------------------------------------------------------------------------
(* File names under data/ *)

LowerCase == <<"a", "b", "c", "d", "e", "f", "g", "h", "i", "j", "k", "l", "m",
               "n", "o", "p", "q", "r", "s", "t", "u", "v", "w", "x", "y", "z">>
UpperCase == <<"A", "B", "C", "D", "E", "F", "G", "H", "I", "J", "K", "L", "M",
               "N", "O", "P", "Q", "R", "S", "T", "U", "V", "W", "X", "Y", "Z">>

\* String.prototype.toUpperCase on one character
ToUpperCase(c) ==
    IF \E i \in 1..26 : LowerCase[i] = c
    THEN UpperCase[CHOOSE i \in 1..26 : LowerCase[i] = c]
    ELSE c

\* how a file system that ignores case folds one character of a name
FoldCase(c) ==
    IF \E i \in 1..26 : UpperCase[i] = c
    THEN LowerCase[CHOOSE i \in 1..26 : UpperCase[i] = c]
    ELSE c

\* the string made of the characters of s
RECURSIVE Concat(_)
Concat(s) == IF Len(s) = 0 THEN "" ELSE Head(s) \o Concat(Tail(s))

\* the characters of the type argument of downloadAndExtractDatabase
TypeChars(t) ==
    CASE t = "country" -> <<"c", "o", "u", "n", "t", "r", "y">>
      [] t = "city" -> <<"c", "i", "t", "y">>
      [] t = "asn" -> <<"a", "s", "n">>

\* type.charAt(0).toUpperCase() + type.slice(1)
Capitalized(t) == <<ToUpperCase(Head(TypeChars(t)))>> \o Tail(TypeChars(t))

GeoLite2 == <<"G", "e", "o", "L", "i", "t", "e", "2", "-">>
Mmdb == <<".", "m", "m", "d", "b">>

\* destPath of the updater: `GeoLite2-${...}.mmdb` under data/
DestPath(t) == GeoLite2 \o Capitalized(t) \o Mmdb

\* countryDbPath, cityDbPath, asnDbPath of the server, under data/
DbPath(t) ==
    CASE t = "country" -> GeoLite2 \o <<"C", "o", "u", "n", "t", "r", "y">> \o Mmdb
      [] t = "city" -> GeoLite2 \o <<"C", "i", "t", "y">> \o Mmdb
      [] t = "asn" -> GeoLite2 \o <<"A", "S", "N">> \o Mmdb

\* the directory entry a path resolves to on a file system that tells
\* (cs = TRUE) or does not tell upper case from lower case
FileName(path, cs) ==
    Concat(IF cs THEN path ELSE [i \in 1..Len(path) |-> FoldCase(path[i])])

DestFiles == [cs \in BOOLEAN |-> [t \in TypeSet |-> FileName(DestPath(t), cs)]]
DbFiles == [cs \in BOOLEAN |-> [t \in TypeSet |-> FileName(DbPath(t), cs)]]

\* the file fs.copyFileSync(mmdbFilePath, destPath) writes for type t
DestFile(t) == DestFiles[fsCaseSensitive][t]

\* the file fs.existsSync and maxmind.open of initDatabases read for type t
DbFile(t) == DbFiles[fsCaseSensitive][t]

\* every directory entry a path of the server or of the updater can resolve to
DataFiles ==
    {DestFiles[cs][t] : cs \in BOOLEAN, t \in TypeSet}
        \cup {DbFiles[cs][t] : cs \in BOOLEAN, t \in TypeSet}

----------------------------------------------------------------------------
(* isValidIPv4: the regular expression                                     *)
(*   ^(?:(?:25[0-5]|2[0-4][0-9]|[01]?[0-9][0-9]?)\.){3}                    *)
(*    (?:25[0-5]|2[0-4][0-9]|[01]?[0-9][0-9]?)$                            *)
(* run as a position automaton: each operator returns the set of           *)
(* positions the match can have reached.                                   *)

\* [0-9][0-9]? from position k
DigitsEnds(s, k) ==
    IF InClass(At(s, k), 0, 9)
    THEN {k + 1} \cup (IF InClass(At(s, k + 1), 0, 9) THEN {k + 2} ELSE {})
    ELSE {}

\* (?:25[0-5]|2[0-4][0-9]|[01]?[0-9][0-9]?) from position i
OctetEnds(s, i) ==
    LET alt1 == IF At(s, i) = "2" /\ At(s, i + 1) = "5" /\ InClass(At(s, i + 2), 0, 5)
                THEN {i + 3} ELSE {}
        alt2 == IF At(s, i) = "2" /\ InClass(At(s, i + 1), 0, 4)
                   /\ InClass(At(s, i + 2), 0, 9)
                THEN {i + 3} ELSE {}
        alt3 == DigitsEnds(s, i) \cup
                (IF InClass(At(s, i), 0, 1) THEN DigitsEnds(s, i + 1) ELSE {})
    IN alt1 \cup alt2 \cup alt3

\* (?:octet\.) from each of the positions in starts
GroupEnds(s, starts) ==
    UNION {{e + 1 : e \in {x \in OctetEnds(s, i) : At(s, x) = "."}} : i \in starts}

\* the positions after ^(?:octet\.){3}octet
QuadEnds(s) ==
    LET g1 == GroupEnds(s, {1})
        g2 == GroupEnds(s, g1)
        g3 == GroupEnds(s, g2)
    IN UNION {OctetEnds(s, i) : i \in g3}

\* a variant without the $ anchor: a matching prefix is enough
isValidIPv4NoEndAnchor(ip) == QuadEnds(ip) # {}

\* regex.test(ip): $ without the m flag matches at the end of the input only
isValidIPv4(ip) == (Len(ip) + 1) \in QuadEnds(ip)

----------------------------------------------------------------------------
(* Requests *)

\* String.prototype.replace(pat, ""): removes the first occurrence of pat
RemoveFirst(s, pat) ==
    LET n == Len(pat)
        hits == {i \in 1..Len(s) : i + n - 1 <= Len(s) /\ SubSeq(s, i, i + n - 1) = pat}
    IN IF hits = {} THEN s
       ELSE LET i == CHOOSE h \in hits : \A k \in hits : h <= k
            IN SubSeq(s, 1, i - 1) \o SubSeq(s, i + n, Len(s))

MappedPrefix == <<":", ":", "f", "f", "f", "f", ":">>

\* req.params.ip || req.ip.replace("::ffff:", ""); meaningful unless IpThrows(rq)
IpToLookup(rq) ==
    IF rq.hasParam /\ rq.param # Str0 THEN rq.param
    ELSE RemoveFirst(rq.addr, MappedPrefix)

\* req.ip is undefined when the socket is already gone: .replace then throws
IpThrows(rq) == ~(rq.hasParam /\ rq.param # Str0) /\ ~rq.hasAddr

\* the octet strings the generated IP strings are built from
BaseOctet == <<"8">>
OctetStrs ==
    { Str0, <<"0">>, <<"0", "1">>, <<"1", "9", "9">>, <<"2", "4", "9">>,
      <<"2", "5", "5">>, <<"2", "5", "6">>, <<"2", "6", "0">>, <<"3", "0", "0">>,
      <<"9", "9", "9">>, <<"0", "2", "5", "5">>, <<"1", "a">>, <<"8", "\n">>,
      <<" ", "8">>, <<"8", ".">> }

RECURSIVE JoinDots(_)
JoinDots(parts) ==
    IF Len(parts) = 0 THEN Str0
    ELSE IF Len(parts) = 1 THEN parts[1]
    ELSE parts[1] \o <<".">> \o JoinDots(Tail(parts))

\* n parts, all BaseOctet but the one at pos
IPStrings ==
    { JoinDots([k \in 1..n |-> IF k = pos THEN o ELSE BaseOctet]) :
        n \in 1..MaxParts, pos \in 1..MaxParts, o \in OctetStrs \cup {BaseOctet} }

QuadBase == JoinDots(<<BaseOctet, BaseOctet, BaseOctet, BaseOctet>>)

\* the addresses express reports for the caller
Addrs == { MappedPrefix \o QuadBase, QuadBase, <<":", ":", "1">>,
           MappedPrefix \o JoinDots(<<BaseOctet, BaseOctet, <<"2", "5", "6">>, BaseOctet>>) }

Request(hasParam, param, hasAddr, addr) ==
    [hasParam |-> hasParam, param |-> param, hasAddr |-> hasAddr, addr |-> addr]

Requests ==
    { Request(TRUE, ip, TRUE, QuadBase) : ip \in IPStrings }
    \cup { Request(FALSE, Str0, TRUE, a) : a \in Addrs }
    \cup { Request(FALSE, Str0, FALSE, Str0) }

\* the requests of the specification of the whole system
LiveRequests ==
    { Request(TRUE, QuadBase, TRUE, QuadBase),
      Request(TRUE, JoinDots(<<BaseOctet, BaseOctet, BaseOctet>>), TRUE, QuadBase) }

NoRequest == Request(FALSE, Str0, FALSE, Str0)

----------------------------------------------------------------------------
(* Values, handles and database records *)

Val(src, v, gen) == [src |-> src, v |-> v, gen |-> gen]

Unknown == Val("default", "Unknown", 0)
XX == Val("default", "XX", 0)
Null == Val("default", "null", 0)
Undefined == Val("undefined", "undefined", 0)
\* a key JSON.stringify leaves out
Omitted == Val("omitted", "", 0)
\* a response without a GeoRecord
NoField == Val("none", "", 0)

\* a variant that reads the time zone from the file on disk at query time
\* instead of the buffer the handle was loaded from
DbValLive(t, g, f) ==
    IF f = "location.time_zone" /\ dest[DbFile(t)].exists
    THEN Val(t, f, dest[DbFile(t)].gen)
    ELSE Val(t, f, g)

\* the datum at path f of a record of the type-t database of generation g
DbVal(t, g, f) == Val(t, f, g)

\* a global handle: null, or the reader of the file of generation gen
NullDB == [loaded |-> FALSE, gen |-> 0]
Handle(g) == [loaded |-> TRUE, gen |-> g]
Handles == {NullDB} \cup {Handle(g) : g \in 1..MaxGen}

ipDB(t) == CASE t = "country" -> ipCountryDB
             [] t = "city" -> ipCityDB
             [] t = "asn" -> ipAsnDB

\* The blocks of a record.  has = FALSE: the record lacks the block.
NoCountryBlock == [has |-> FALSE, en |-> Undefined, iso |-> Undefined]
CountryBlock(t, g, shape) ==
    CASE shape = "absent" -> NoCountryBlock
      [] shape = "full" -> [has |-> TRUE, en |-> DbVal(t, g, "country.names.en"),
                            iso |-> DbVal(t, g, "country.iso_code")]
      [] shape = "noEn" -> [has |-> TRUE, en |-> Undefined,
                            iso |-> DbVal(t, g, "country.iso_code")]

SubdivisionsBlock(g, shape) ==
    CASE shape = "absent" -> [has |-> FALSE, list |-> <<>>]
      [] shape = "empty" -> [has |-> TRUE, list |-> <<>>]
      [] shape = "full" ->
           [has |-> TRUE, list |-> <<[en |-> DbVal("city", g, "subdivisions[0].names.en")],
                                     [en |-> DbVal("city", g, "subdivisions[1].names.en")]>>]

CityBlock(g, shape) ==
    CASE shape = "absent" -> [has |-> FALSE, en |-> Undefined]
      [] shape = "full" -> [has |-> TRUE, en |-> DbVal("city", g, "city.names.en")]
      [] shape = "noEn" -> [has |-> TRUE, en |-> Undefined]

PostalBlock(g, shape) ==
    CASE shape = "absent" -> [has |-> FALSE, code |-> Undefined]
      [] shape = "full" -> [has |-> TRUE, code |-> DbVal("city", g, "postal.code")]
      [] shape = "noCode" -> [has |-> TRUE, code |-> Undefined]

LocationBlock(g, shape) ==
    CASE shape = "absent" -> [has |-> FALSE, latitude |-> Undefined,
                              longitude |-> Undefined, time_zone |-> Undefined]
      [] shape = "full" -> [has |-> TRUE,
                            latitude |-> DbVal("city", g, "location.latitude"),
                            longitude |-> DbVal("city", g, "location.longitude"),
                            time_zone |-> DbVal("city", g, "location.time_zone")]
      [] shape = "noTz" -> [has |-> TRUE,
                            latitude |-> DbVal("city", g, "location.latitude"),
                            longitude |-> DbVal("city", g, "location.longitude"),
                            time_zone |-> Undefined]

\* what handle.get(ip) returns: null (hit = FALSE) or a record
CityMiss ==
    [hit |-> FALSE, country |-> NoCountryBlock,
     subdivisions |-> SubdivisionsBlock(0, "absent"), city |-> CityBlock(0, "absent"),
     postal |-> PostalBlock(0, "absent"), location |-> LocationBlock(0, "absent")]
CityRecord(g, sh) ==
    [hit |-> TRUE, country |-> CountryBlock("city", g, sh.country),
     subdivisions |-> SubdivisionsBlock(g, sh.subdivisions), city |-> CityBlock(g, sh.city),
     postal |-> PostalBlock(g, sh.postal), location |-> LocationBlock(g, sh.location)]

CountryMiss == [hit |-> FALSE, country |-> NoCountryBlock]
CountryRecord(g, sh) == [hit |-> TRUE, country |-> CountryBlock("country", g, sh)]

AsnMiss == [hit |-> FALSE, autonomous_system_number |-> Undefined,
            autonomous_system_organization |-> Undefined]
AsnRecord(g, sh) ==
    [hit |-> TRUE,
     autonomous_system_number |->
        IF sh = "noNumber" THEN Undefined ELSE DbVal("asn", g, "autonomous_system_number"),
     autonomous_system_organization |->
        IF sh = "noOrg" THEN Undefined
        ELSE DbVal("asn", g, "autonomous_system_organization")]

\* the shapes of record the opaque reader may return
CityShapes ==
    [country : {"absent", "full", "noEn"}, subdivisions : {"absent", "empty", "full"},
     city : {"absent", "full", "noEn"}, postal : {"absent", "full", "noCode"},
     location : {"absent", "full", "noTz"}]
CountryShapes == {"absent", "full", "noEn"}
AsnShapes == {"full", "noNumber", "noOrg"}
AllShapes == [city |-> CityShapes, country |-> CountryShapes, asn |-> AsnShapes]

FullCity == [country |-> "full", subdivisions |-> "full", city |-> "full",
             postal |-> "full", location |-> "full"]
\* the shapes of the specification of the whole system: a complete record or none
LiveShapes == [city |-> {FullCity}, country |-> {"full"}, asn |-> {"full"}]

\* ipCityDB.get(ip), ipCountryDB.get(ip), ipAsnDB.get(ip): any record of the
\* handle's generation, or null
CityGet(h, shapes) == {CityMiss} \cup {CityRecord(h.gen, sh) : sh \in shapes}
CountryGet(h, shapes) == {CountryMiss} \cup {CountryRecord(h.gen, sh) : sh \in shapes}
AsnGet(h, shapes) == {AsnMiss} \cup {AsnRecord(h.gen, sh) : sh \in shapes}

\* results of the get calls of one lookup; q = FALSE: the handle was not queried
NotQueried == [city |-> [q |-> FALSE, rec |-> CityMiss],
               country |-> [q |-> FALSE, rec |-> CountryMiss],
               asn |-> [q |-> FALSE, rec |-> AsnMiss]]

----------------------------------------------------------------------------
(* The lookup handler: app.get("/api/lookup/:ip?") *)

LocationFields == {"country", "countryCode", "region", "city", "zipCode",
                   "latitude", "longitude", "timezone"}
NetworkFields == {"isp", "organization", "asn", "asName"}

\* the location and network blocks of the default result structure
DefaultLocation ==
    [country |-> Unknown, countryCode |-> XX, region |-> Unknown, city |-> Unknown,
     zipCode |-> Unknown, latitude |-> Null, longitude |-> Null, timezone |-> Unknown]
DefaultNetwork ==
    [isp |-> Unknown, organization |-> Unknown, asn |-> Null, asName |-> Unknown]

NoLocation == [f \in LocationFields |-> NoField]
NoNetwork == [f \in NetworkFields |-> NoField]

\* the template literal `AS${n}`
AsLabel(n) ==
    IF n = Undefined THEN Val("template", "ASundefined", 0)
    ELSE Val("template", "AS" \o n.v, n.gen)

\* a variant that reads the last subdivision instead of the first
RegionOfLast(cityData) == cityData.subdivisions.list[Len(cityData.subdivisions.list)].en

\* cityData.subdivisions[0].names.en
RegionOf(cityData) == cityData.subdivisions.list[1].en

\* if (cityData) { ... }: the assignments from the city record
LocationFromCity(loc, cityData) ==
    IF ~cityData.hit THEN loc
    ELSE LET l1 == IF cityData.country.has
                   THEN [loc EXCEPT !.country = cityData.country.en,
                                    !.countryCode = cityData.country.iso]
                   ELSE loc
             l2 == IF cityData.subdivisions.has /\ Len(cityData.subdivisions.list) > 0
                   THEN [l1 EXCEPT !.region = RegionOf(cityData)]
                   ELSE l1
             l3 == IF cityData.city.has THEN [l2 EXCEPT !.city = cityData.city.en] ELSE l2
             l4 == IF cityData.postal.has
                   THEN [l3 EXCEPT !.zipCode = cityData.postal.code] ELSE l3
             l5 == IF cityData.location.has
                   THEN [l4 EXCEPT !.latitude = cityData.location.latitude,
                                   !.longitude = cityData.location.longitude,
                                   !.timezone = cityData.location.time_zone]
                   ELSE l4
         IN l5

\* if (countryData && countryData.country) { ... }
LocationFromCountry(loc, countryData) ==
    IF countryData.hit /\ countryData.country.has
    THEN [loc EXCEPT !.country = countryData.country.en,
                     !.countryCode = countryData.country.iso]
    ELSE loc

\* a variant that resolves the network only when a location handle is loaded
NetworkFromAsnNested(net, asnData) ==
    IF asnData.hit /\ (ipCityDB.loaded \/ ipCountryDB.loaded)
    THEN [asn |-> asnData.autonomous_system_number,
          organization |-> asnData.autonomous_system_organization,
          isp |-> asnData.autonomous_system_organization,
          asName |-> AsLabel(asnData.autonomous_system_number)]
    ELSE net

\* if (asnData) { ... }
NetworkFromAsn(net, asnData) ==
    IF asnData.hit
    THEN [asn |-> asnData.autonomous_system_number,
          organization |-> asnData.autonomous_system_organization,
          isp |-> asnData.autonomous_system_organization,
          asName |-> AsLabel(asnData.autonomous_system_number)]
    ELSE net

\* a variant with the ASN test inverted
NoDatabaseLoadedAsnInverted(city, country, asn) ==
    ~city.loaded /\ ~country.loaded /\ asn.loaded

\* !ipCityDB && !ipCountryDB && !ipAsnDB
NoDatabaseLoaded(city, country, asn) == ~city.loaded /\ ~country.loaded /\ ~asn.loaded

\* a variant that falls back to the country handle on a city miss as well
QueriesCountryOnCityMiss(city, country, cityData) ==
    (~city.loaded \/ ~cityData.hit) /\ country.loaded

\* else if (ipCountryDB): the country handle is queried only without a city handle
QueriesCountry(city, country, cityData) == ~city.loaded /\ country.loaded

\* JSON.stringify: a key whose value is undefined is left out
JsonValue(v) == IF v = Undefined THEN Omitted ELSE v
JsonObject(o) == [f \in DOMAIN o |-> JsonValue(o[f])]

Response(status, body, ip, location, network) ==
    [status |-> status, body |-> body, ip |-> ip,
     location |-> location, network |-> network]

ErrorResponse(status) == Response(status, "error", Str0, NoLocation, NoNetwork)
NoResponse == Response(0, "none", Str0, NoLocation, NoNetwork)

\* The handler has no await: it runs to completion in one step.  req, resp and
\* got are the locals of the request being answered.  shapes bounds the records
\* the readers may return.
Lookup(rq, shapes) ==
    /\ resp = NoResponse
    /\ req' = rq
    /\ IF IpThrows(rq)
       THEN /\ resp' = ErrorResponse(500)
            /\ got' = NotQueried
       ELSE IF ~isValidIPv4(IpToLookup(rq))
       THEN /\ resp' = ErrorResponse(400)
            /\ got' = NotQueried
       ELSE IF NoDatabaseLoaded(ipCityDB, ipCountryDB, ipAsnDB)
       THEN /\ resp' = ErrorResponse(503)
            /\ got' = NotQueried
       ELSE \E cityData \in (IF ipCityDB.loaded THEN CityGet(ipCityDB, shapes.city)
                             ELSE {CityMiss}) :
            \E countryData \in (IF QueriesCountry(ipCityDB, ipCountryDB, cityData)
                                THEN CountryGet(ipCountryDB, shapes.country)
                                ELSE {CountryMiss}) :
            \E asnData \in (IF ipAsnDB.loaded THEN AsnGet(ipAsnDB, shapes.asn)
                            ELSE {AsnMiss}) :
              LET fromCity ==
                    IF ipCityDB.loaded THEN LocationFromCity(DefaultLocation, cityData)
                    ELSE DefaultLocation
                  location ==
                    IF QueriesCountry(ipCityDB, ipCountryDB, cityData)
                    THEN LocationFromCountry(fromCity, countryData)
                    ELSE fromCity
                  network ==
                    IF ipAsnDB.loaded THEN NetworkFromAsn(DefaultNetwork, asnData)
                    ELSE DefaultNetwork
              IN /\ resp' = Response(200, "GeoRecord", IpToLookup(rq),
                                     JsonObject(location), JsonObject(network))
                 /\ got' = [city |-> [q |-> ipCityDB.loaded, rec |-> cityData],
                            country |-> [q |-> QueriesCountry(ipCityDB, ipCountryDB, cityData),
                                         rec |-> countryData],
                            asn |-> [q |-> ipAsnDB.loaded, rec |-> asnData]]
    /\ UNCHANGED <<serverVars, remote, diskVars, updaterVars>>

\* the response has been sent: the handler's locals are gone
Finish ==
    /\ resp # NoResponse
    /\ req' = NoRequest /\ resp' = NoResponse /\ got' = NotQueried
    /\ UNCHANGED <<serverVars, remote, diskVars, updaterVars>>

----------------------------------------------------------------------------
(* Files under data/ *)

\* what an archive holds: one .mmdb payload, no payload, or bytes tar rejects
ArchiveKinds == {"good", "empty", "corrupt"}

NoArchive == [exists |-> FALSE, gen |-> 0, kind |-> "good"]
Archive(g, kind) == [exists |-> TRUE, gen |-> g, kind |-> kind]

\* temp_<type>: the generations of the .mmdb files below it
NoDir == [exists |-> FALSE, files |-> {}]
Dir(files) == [exists |-> TRUE, files |-> files]

\* a .mmdb file under data/: complete = FALSE while only part of it is written
NoDest == [exists |-> FALSE, gen |-> 0, complete |-> FALSE]
Dest(g, complete) == [exists |-> TRUE, gen |-> g, complete |-> complete]

\* the .mmdb files tar.extract writes for an archive
Payloads(a) == IF a.kind = "good" THEN {a.gen} ELSE {}

----------------------------------------------------------------------------
(* The lookup server: initDatabases *)

AfterCheck(t) == CASE t = "country" -> "check_city"
                   [] t = "city" -> "check_asn"
                   [] t = "asn" -> "done"

\* if (fs.existsSync(path)) ... else console.warn(...)
InitCheck(t) ==
    /\ initPc = "check_" \o t
    /\ initPc' = IF dest[DbFile(t)].exists THEN "open_" \o t ELSE AfterCheck(t)
    /\ UNCHANGED <<ipCountryDB, ipCityDB, ipAsnDB, lookupVars, remote, diskVars,
                   updaterVars>>

\* maxmind.open reads the whole file and parses it: it rejects a file that
\* is not a complete database
OpenSucceeds(f) == f.exists /\ f.complete

\* a variant whose catch block drops the handles loaded so far
InitOpenResets(t) ==
    /\ initPc = "open_" \o t
    /\ IF OpenSucceeds(dest[DbFile(t)])
       THEN /\ LET db == Handle(dest[DbFile(t)].gen)
               IN /\ ipCountryDB' = IF t = "country" THEN db ELSE ipCountryDB
                  /\ ipCityDB' = IF t = "city" THEN db ELSE ipCityDB
                  /\ ipAsnDB' = IF t = "asn" THEN db ELSE ipAsnDB
            /\ initPc' = AfterCheck(t)
       ELSE /\ ipCountryDB' = NullDB /\ ipCityDB' = NullDB /\ ipAsnDB' = NullDB
            /\ initPc' = "done"
    /\ UNCHANGED <<lookupVars, remote, diskVars, updaterVars>>

\* a variant with one try block per database: an error skips that type only
InitOpenContinues(t) ==
    /\ initPc = "open_" \o t
    /\ IF OpenSucceeds(dest[DbFile(t)])
       THEN /\ LET db == Handle(dest[DbFile(t)].gen)
               IN /\ ipCountryDB' = IF t = "country" THEN db ELSE ipCountryDB
                  /\ ipCityDB' = IF t = "city" THEN db ELSE ipCityDB
                  /\ ipAsnDB' = IF t = "asn" THEN db ELSE ipAsnDB
       ELSE UNCHANGED <<ipCountryDB, ipCityDB, ipAsnDB>>
    /\ initPc' = AfterCheck(t)
    /\ UNCHANGED <<lookupVars, remote, diskVars, updaterVars>>

\* ipXDB = await maxmind.open(path); an exception ends initDatabases in its catch
InitOpen(t) ==
    /\ initPc = "open_" \o t
    /\ IF OpenSucceeds(dest[DbFile(t)])
       THEN /\ LET db == Handle(dest[DbFile(t)].gen)
               IN /\ ipCountryDB' = IF t = "country" THEN db ELSE ipCountryDB
                  /\ ipCityDB' = IF t = "city" THEN db ELSE ipCityDB
                  /\ ipAsnDB' = IF t = "asn" THEN db ELSE ipAsnDB
            /\ initPc' = AfterCheck(t)
       ELSE /\ UNCHANGED <<ipCountryDB, ipCityDB, ipAsnDB>>
            /\ initPc' = "done"
    /\ UNCHANGED <<lookupVars, remote, diskVars, updaterVars>>

----------------------------------------------------------------------------
(* The updater: update-db.js *)

\* the two ways a run of update-db.js is started: the cron service's exec,
\* and by hand (the run on script start)
Procs == {"cron", "manual"}

\* the type a process is refreshing
TypeOf(p) == Types[cur[p]]

\* the MaxMind release moves on
RemoteRelease ==
    /\ remote < MaxGen
    /\ remote' = remote + 1
    /\ UNCHANGED <<serverVars, lookupVars, diskVars, updaterVars>>

\* updateAllDatabases(): node update-db.js
Start(p) ==
    /\ pc[p] = "idle"
    /\ runs < MaxRuns
    /\ runs' = runs + 1
    /\ cur' = [cur EXCEPT ![p] = 1]
    /\ pc' = [pc EXCEPT ![p] = "download"]
    /\ outcome' = [outcome EXCEPT ![p] = "running"]
    /\ UNCHANGED <<serverVars, lookupVars, remote, diskVars, data, mmdbFilePath, faults>>

\* throw inside the try block of downloadAndExtractDatabase
Throw(p, step) ==
    /\ pc' = [pc EXCEPT ![p] = "catch"]
    /\ outcome' = [outcome EXCEPT ![p] = step]

\* const response = await axios({...})
Download(p) ==
    /\ pc[p] = "download"
    /\ \/ /\ \E kind \in ArchiveKinds :
                /\ kind # "good" => faults < MaxFaults
                /\ data' = [data EXCEPT ![p] = Archive(remote, kind)]
                /\ faults' = IF kind = "good" THEN faults ELSE faults + 1
          /\ pc' = [pc EXCEPT ![p] = "save"]
          /\ UNCHANGED outcome
       \/ /\ faults < MaxFaults
          /\ faults' = faults + 1
          /\ Throw(p, "download")
          /\ UNCHANGED data
    /\ UNCHANGED <<serverVars, lookupVars, remote, diskVars, cur, mmdbFilePath, runs>>

\* fs.writeFileSync(tempFile, response.data); response is not read again
Save(p) ==
    /\ pc[p] = "save"
    /\ archive' = [archive EXCEPT ![TypeOf(p)] = data[p]]
    /\ data' = [data EXCEPT ![p] = NoArchive]
    /\ pc' = [pc EXCEPT ![p] = "mkdir"]
    /\ UNCHANGED <<serverVars, lookupVars, remote, fsCaseSensitive, tempDir, dest, cur,
                   mmdbFilePath, outcome, runs, faults>>

\* if (!fs.existsSync(tempDir)) fs.mkdirSync(tempDir, { recursive: true })
Mkdir(p) ==
    /\ pc[p] = "mkdir"
    /\ tempDir' = [tempDir EXCEPT ![TypeOf(p)] = IF @.exists THEN @ ELSE Dir({})]
    /\ pc' = [pc EXCEPT ![p] = "extract"]
    /\ UNCHANGED <<serverVars, lookupVars, remote, fsCaseSensitive, archive, dest, cur, data,
                   mmdbFilePath, outcome, runs, faults>>

\* await tar.extract({ file: tempFile, cwd: tempDir })
Extract(p) ==
    LET t == TypeOf(p) IN
    /\ pc[p] = "extract"
    /\ IF archive[t].exists /\ archive[t].kind # "corrupt" /\ tempDir[t].exists
       THEN /\ tempDir' = [tempDir EXCEPT ![t] = Dir(@.files \cup Payloads(archive[t]))]
            /\ pc' = [pc EXCEPT ![p] = "find"]
            /\ UNCHANGED outcome
       ELSE /\ Throw(p, "extract")
            /\ UNCHANGED tempDir
    /\ UNCHANGED <<serverVars, lookupVars, remote, fsCaseSensitive, archive, dest, cur, data,
                   mmdbFilePath, runs, faults>>

\* findMmdbFile(tempDir): the first .mmdb file in directory order, which the
\* file system decides; null when there is none
FindMmdbFile(p) ==
    LET t == TypeOf(p) IN
    /\ pc[p] = "find"
    /\ IF tempDir[t].exists /\ tempDir[t].files # {}
       THEN /\ \E f \in tempDir[t].files : mmdbFilePath' = [mmdbFilePath EXCEPT ![p] = f]
            /\ pc' = [pc EXCEPT ![p] = "copy"]
            /\ UNCHANGED outcome
       ELSE /\ Throw(p, "find")
            /\ UNCHANGED mmdbFilePath
    /\ UNCHANGED <<serverVars, lookupVars, remote, diskVars, cur, data, runs, faults>>

\* a variant that copies with COPYFILE_EXCL: EEXIST when destPath exists
CopyBeginExclusive(p) ==
    LET t == TypeOf(p) IN
    /\ pc[p] = "copy"
    /\ IF tempDir[t].exists /\ mmdbFilePath[p] \in tempDir[t].files
          /\ ~dest[DestFile(t)].exists
       THEN /\ dest' = [dest EXCEPT ![DestFile(t)] = Dest(mmdbFilePath[p], FALSE)]
            /\ pc' = [pc EXCEPT ![p] = "copying"]
            /\ UNCHANGED outcome
       ELSE /\ Throw(p, "copy")
            /\ UNCHANGED dest
    /\ UNCHANGED <<serverVars, lookupVars, remote, fsCaseSensitive, archive, tempDir,
                   cur, data, mmdbFilePath, runs, faults>>

\* fs.copyFileSync(mmdbFilePath, destPath) opens and truncates destPath and
\* starts writing; ENOENT when the source is gone
CopyBegin(p) ==
    LET t == TypeOf(p) IN
    /\ pc[p] = "copy"
    /\ IF tempDir[t].exists /\ mmdbFilePath[p] \in tempDir[t].files
       THEN /\ dest' = [dest EXCEPT ![DestFile(t)] = Dest(mmdbFilePath[p], FALSE)]
            /\ pc' = [pc EXCEPT ![p] = "copying"]
            /\ UNCHANGED outcome
       ELSE /\ Throw(p, "copy")
            /\ UNCHANGED dest
    /\ UNCHANGED <<serverVars, lookupVars, remote, fsCaseSensitive, archive, tempDir, cur, data,
                   mmdbFilePath, runs, faults>>

\* fs.copyFileSync writes the last byte, or fails part-way (disk full, I/O error)
CopyEnd(p) ==
    LET t == TypeOf(p) IN
    /\ pc[p] = "copying"
    /\ \/ /\ dest' = [dest EXCEPT ![DestFile(t)] = Dest(mmdbFilePath[p], TRUE)]
          /\ pc' = [pc EXCEPT ![p] = "unlink"]
          /\ UNCHANGED <<outcome, faults>>
       \/ /\ faults < MaxFaults
          /\ faults' = faults + 1
          /\ Throw(p, "copy")
          /\ UNCHANGED dest
    /\ UNCHANGED <<serverVars, lookupVars, remote, fsCaseSensitive, archive, tempDir, cur, data,
                   mmdbFilePath, runs>>

\* fs.unlinkSync(tempFile): ENOENT when the file is gone
Unlink(p) ==
    LET t == TypeOf(p) IN
    /\ pc[p] = "unlink"
    /\ IF archive[t].exists
       THEN /\ archive' = [archive EXCEPT ![t] = NoArchive]
            /\ pc' = [pc EXCEPT ![p] = "rmdir"]
            /\ UNCHANGED outcome
       ELSE /\ Throw(p, "unlink")
            /\ UNCHANGED archive
    /\ UNCHANGED <<serverVars, lookupVars, remote, fsCaseSensitive, tempDir, dest, cur, data,
                   mmdbFilePath, runs, faults>>

\* fs.rmSync(tempDir, { recursive: true, force: true }); "updated successfully"
RmDir(p) ==
    /\ pc[p] = "rmdir"
    /\ tempDir' = [tempDir EXCEPT ![TypeOf(p)] = NoDir]
    /\ pc' = [pc EXCEPT ![p] = "ended"]
    /\ outcome' = [outcome EXCEPT ![p] = "ok"]
    /\ UNCHANGED <<serverVars, lookupVars, remote, fsCaseSensitive, archive, dest, cur, data,
                   mmdbFilePath, runs, faults>>

\* a variant whose catch block ends the process, as the catch block of
\* updateAllDatabases does
CatchExits(p) ==
    /\ pc[p] = "catch"
    /\ archive' = [archive EXCEPT ![TypeOf(p)] = NoArchive]
    /\ pc' = [pc EXCEPT ![p] = "idle"]
    /\ cur' = [cur EXCEPT ![p] = 0]
    /\ outcome' = [outcome EXCEPT ![p] = "none"]
    /\ mmdbFilePath' = [mmdbFilePath EXCEPT ![p] = 0]
    /\ UNCHANGED <<serverVars, lookupVars, remote, fsCaseSensitive, tempDir, dest,
                   data, runs, faults>>

\* a variant whose catch block also removes the destination file
CatchRemovesDest(p) ==
    /\ pc[p] = "catch"
    /\ archive' = [archive EXCEPT ![TypeOf(p)] = NoArchive]
    /\ dest' = [dest EXCEPT ![DestFile(TypeOf(p))] = NoDest]
    /\ pc' = [pc EXCEPT ![p] = "ended"]
    /\ UNCHANGED <<serverVars, lookupVars, remote, fsCaseSensitive, tempDir, cur,
                   data, mmdbFilePath, outcome, runs, faults>>

\* catch (error) { if (fs.existsSync(tempFile)) fs.unlinkSync(tempFile) }
Catch(p) ==
    /\ pc[p] = "catch"
    /\ archive' = [archive EXCEPT ![TypeOf(p)] = NoArchive]
    /\ pc' = [pc EXCEPT ![p] = "ended"]
    /\ UNCHANGED <<serverVars, lookupVars, remote, fsCaseSensitive, tempDir, dest, cur, data,
                   mmdbFilePath, outcome, runs, faults>>

\* downloadAndExtractDatabase returns (its locals are gone) and
\* updateAllDatabases moves to the next await, or the process exits
NextType(p) ==
    /\ pc[p] = "ended"
    /\ IF cur[p] < Len(Types)
       THEN /\ cur' = [cur EXCEPT ![p] = @ + 1]
            /\ pc' = [pc EXCEPT ![p] = "download"]
            /\ outcome' = [outcome EXCEPT ![p] = "running"]
       ELSE /\ cur' = [cur EXCEPT ![p] = 0]
            /\ pc' = [pc EXCEPT ![p] = "idle"]
            /\ outcome' = [outcome EXCEPT ![p] = "none"]
    /\ mmdbFilePath' = [mmdbFilePath EXCEPT ![p] = 0]
    /\ UNCHANGED <<serverVars, lookupVars, remote, diskVars, data, runs, faults>>

----------------------------------------------------------------------------
(* Specifications *)

\* A fresh checkout on either kind of file system: no file under data/, the
\* server just started, no updater running.  Runs of the updater follow one another: the process started by
\* hand stays off (SpecOverlap lets the two overlap).
Init ==
    /\ ipCountryDB = NullDB /\ ipCityDB = NullDB /\ ipAsnDB = NullDB
    /\ initPc = "check_country"
    /\ req = NoRequest /\ resp = NoResponse /\ got = NotQueried
    /\ remote = 1
    /\ archive = [t \in TypeSet |-> NoArchive]
    /\ tempDir = [t \in TypeSet |-> NoDir]
    /\ fsCaseSensitive \in BOOLEAN
    /\ dest = [f \in DataFiles |-> NoDest]
    /\ pc = [p \in Procs |-> IF p = "cron" THEN "idle" ELSE "off"]
    /\ cur = [p \in Procs |-> 0]
    /\ data = [p \in Procs |-> NoArchive]
    /\ mmdbFilePath = [p \in Procs |-> 0]
    /\ outcome = [p \in Procs |-> "none"]
    /\ runs = 0
    /\ faults = 0

LookupLive == \E rq \in LiveRequests : Lookup(rq, LiveShapes)

Updater(p) ==
    \/ Start(p) \/ Download(p) \/ Save(p) \/ Mkdir(p) \/ Extract(p)
    \/ FindMmdbFile(p) \/ CopyBegin(p) \/ CopyEnd(p) \/ Unlink(p) \/ RmDir(p)
    \/ Catch(p) \/ NextType(p)

Server == \E t \in TypeSet : InitCheck(t) \/ InitOpen(t)

\* A response leaves in the turn of the event loop that computed it, and no
\* other step reads or writes the handler's locals: the steps of the server's
\* initDatabases and of the other processes are taken before a request or
\* after its response.
Next ==
    \/ LookupLive
    \/ Finish
    \/ resp = NoResponse /\ Server
    \/ resp = NoResponse /\ RemoteRelease
    \/ resp = NoResponse /\ \E p \in Procs : Updater(p)

Spec == Init /\ [][Next]_vars

\* Two runs of the updater that may overlap (a run started by hand while the
\* cron service's run is under way), without the server: no path of the
\* server is resolved, so one kind of file system is enough.
InitOverlap ==
    /\ ipCountryDB = NullDB /\ ipCityDB = NullDB /\ ipAsnDB = NullDB
    /\ initPc = "done"
    /\ req = NoRequest /\ resp = NoResponse /\ got = NotQueried
    /\ remote = 1
    /\ archive = [t \in TypeSet |-> NoArchive]
    /\ tempDir = [t \in TypeSet |-> NoDir]
    /\ fsCaseSensitive = TRUE
    /\ dest = [f \in DataFiles |-> NoDest]
    /\ pc = [p \in Procs |-> "idle"]
    /\ cur = [p \in Procs |-> 0]
    /\ data = [p \in Procs |-> NoArchive]
    /\ mmdbFilePath = [p \in Procs |-> 0]
    /\ outcome = [p \in Procs |-> "none"]
    /\ runs = 0
    /\ faults = 0

NextOverlap ==
    \/ RemoteRelease
    \/ \E p \in Procs : Updater(p)

SpecOverlap == InitOverlap /\ [][NextOverlap]_vars

\* The handler alone: the server has finished initDatabases with any
\* combination of handles, the data files are the ones it loaded, no updater
\* runs and no file is opened any more.
InitLookup ==
    /\ ipCountryDB \in Handles /\ ipCityDB \in Handles /\ ipAsnDB \in Handles
    /\ initPc = "done"
    /\ req = NoRequest /\ resp = NoResponse /\ got = NotQueried
    /\ remote = 1
    /\ archive = [t \in TypeSet |-> NoArchive]
    /\ tempDir = [t \in TypeSet |-> NoDir]
    /\ fsCaseSensitive = TRUE
    /\ dest = [f \in DataFiles |->
                 IF \E t \in TypeSet : f = DbFile(t) /\ ipDB(t).loaded
                 THEN Dest(ipDB(CHOOSE t \in TypeSet : f = DbFile(t)).gen, TRUE)
                 ELSE NoDest]
    /\ pc = [p \in Procs |-> "idle"]
    /\ cur = [p \in Procs |-> 0]
    /\ data = [p \in Procs |-> NoArchive]
    /\ mmdbFilePath = [p \in Procs |-> 0]
    /\ outcome = [p \in Procs |-> "none"]
    /\ runs = MaxRuns
    /\ faults = 0

LookupAny == \E rq \in Requests : Lookup(rq, AllShapes)

NextLookup == LookupAny \/ Finish

SpecLookup == InitLookup /\ [][NextLookup]_vars

----------------------------------------------------------------------------
(* Properties of the lookup handler *)

\* the parts of s between its dots
RECURSIVE SplitDots(_)
SplitDots(s) ==
    LET dots == {i \in 1..Len(s) : s[i] = "."}
    IN IF dots = {} THEN <<s>>
       ELSE LET i == CHOOSE d \in dots : \A e \in dots : d <= e
            IN <<SubSeq(s, 1, i - 1)>> \o SplitDots(SubSeq(s, i + 1, Len(s)))

RECURSIVE DecimalValue(_)
DecimalValue(p) ==
    IF Len(p) = 0 THEN 0
    ELSE 10 * DecimalValue(SubSeq(p, 1, Len(p) - 1)) + DigitVal[p[Len(p)]]

\* one to three decimal digits whose value is at most 255
IsOctet(p) ==
    /\ Len(p) \in 1..3
    /\ \A i \in 1..Len(p) : p[i] \in Digits
    /\ DecimalValue(p) <= 255

\* dotted-quad syntax: four octets 0-255 separated by dots
StrictIPv4(s) ==
    LET parts == SplitDots(s)
    IN Len(parts) = 4 /\ \A i \in 1..4 : IsOctet(parts[i])

\* a lookup has been answered for a request that carries an IP string
Answered == resp # NoResponse /\ ~IpThrows(req)

AnyLoaded == ipCityDB.loaded \/ ipCountryDB.loaded \/ ipAsnDB.loaded

\* C1: a lookup whose IP string is not a dotted quad of four octets 0-255 is
\* answered 400 and no handle is queried, whatever handles are loaded
C1_InvalidIpIs400 ==
    (Answered /\ ~StrictIPv4(IpToLookup(req)))
        => (resp.status = 400 /\ resp.body = "error" /\ got = NotQueried)

\* an IP with an octet above 255 is refused although no handle is loaded
C1_Witness ==
    /\ Answered /\ req.hasParam
    /\ Len(SplitDots(req.param)) = 4
    /\ ~StrictIPv4(req.param)
    /\ ~AnyLoaded
    /\ resp.status = 400

\* C2: with no handle loaded, a lookup of a valid IPv4 address is answered 503
\* and carries no GeoRecord
C2_NoHandleIs503 ==
    (Answered /\ StrictIPv4(IpToLookup(req)) /\ ~AnyLoaded)
        => (resp.status = 503 /\ resp.body = "error" /\ got = NotQueried)

C2_Witness ==
    /\ Answered /\ StrictIPv4(IpToLookup(req)) /\ ~AnyLoaded
    /\ resp.status = 503

\* the city-derived fields of the response that the city record carries a
\* datum for hold that datum
CityFieldsFrom(loc, rec) ==
    /\ (rec.country.has /\ rec.country.en # Undefined) => loc.country = rec.country.en
    /\ (rec.country.has /\ rec.country.iso # Undefined) => loc.countryCode = rec.country.iso
    /\ (rec.subdivisions.has /\ Len(rec.subdivisions.list) > 0)
          => loc.region = rec.subdivisions.list[1].en
    /\ (rec.city.has /\ rec.city.en # Undefined) => loc.city = rec.city.en
    /\ (rec.postal.has /\ rec.postal.code # Undefined) => loc.zipCode = rec.postal.code
    /\ rec.location.has => /\ loc.latitude = rec.location.latitude
                           /\ loc.longitude = rec.location.longitude
    /\ (rec.location.has /\ rec.location.time_zone # Undefined)
          => loc.timezone = rec.location.time_zone

\* every datum of the location block comes from the city handle's generation
OnlyFromCity(loc) ==
    \A f \in LocationFields :
        loc[f].src \in {"default", "omitted"}
        \/ (loc[f].src = "city" /\ loc[f].gen = ipCityDB.gen)

\* C6: with only a country handle and a country record for the IP, the country
\* name and code come from that record and region, city, postal code,
\* coordinates and timezone stay at their defaults; with a city handle and a
\* city record, the city-derived fields come from that one record and the
\* country handle is not consulted
C6_LocationFallback ==
    /\ (resp.status = 200 /\ ~ipCityDB.loaded /\ ipCountryDB.loaded
        /\ got.country.rec.hit /\ got.country.rec.country.has)
          => /\ got.country.q
             /\ got.country.rec.country.en # Undefined
                   => resp.location.country = got.country.rec.country.en
             /\ got.country.rec.country.iso # Undefined
                   => resp.location.countryCode = got.country.rec.country.iso
             /\ \A f \in LocationFields \ {"country", "countryCode"} :
                   resp.location[f] = DefaultLocation[f]
    /\ (resp.status = 200 /\ ipCityDB.loaded /\ got.city.rec.hit)
          => /\ ~got.country.q
             /\ CityFieldsFrom(resp.location, got.city.rec)
             /\ OnlyFromCity(resp.location)

\* both halves at once is impossible in one state: the witness is the city half
\* with a country handle loaded and a complete city record with two subdivisions
C6_Witness ==
    /\ resp.status = 200 /\ ipCityDB.loaded /\ ipCountryDB.loaded
    /\ got.city.rec.hit /\ got.city.rec.country.has
    /\ Len(got.city.rec.subdivisions.list) = 2
    /\ got.city.rec.location.has /\ got.city.rec.postal.has /\ got.city.rec.city.has
    /\ resp.location.region # Unknown

\* C7: a city handle without a record for the IP leaves every location field
\* at its default and the country handle unqueried; the country handle is
\* queried only when no city handle is loaded
C7_NoFallbackOnCityMiss ==
    /\ (resp.status = 200 /\ ipCityDB.loaded /\ ~got.city.rec.hit)
          => (resp.location = DefaultLocation /\ ~got.country.q)
    /\ (resp.status = 200 /\ got.country.q) => ~ipCityDB.loaded

C7_Witness ==
    /\ resp.status = 200 /\ ipCityDB.loaded /\ ipCountryDB.loaded
    /\ got.city.q /\ ~got.city.rec.hit
    /\ resp.location = DefaultLocation

\* a field of a GeoRecord: present, and a sentinel or a value from a record
IsSentinel(v) == v \in {Unknown, XX, Null}
FromRecord(v) == v.src \in {"country", "city", "asn", "template"} /\ v.gen \in 1..MaxGen

\* C8: in every 200 response each location field and each network field is
\* present and holds a value from a database record or its sentinel
C8_SameShape ==
    resp.status = 200 =>
        /\ \A f \in LocationFields :
              IsSentinel(resp.location[f]) \/ FromRecord(resp.location[f])
        /\ \A f \in NetworkFields :
              IsSentinel(resp.network[f]) \/ FromRecord(resp.network[f])

\* C9: once the handler resolves (valid IP, some handle loaded) the response
\* is 200; the network block is the defaults unless the ASN handle has a
\* record, whose data it then holds whatever the location handles returned;
\* the location block is the defaults unless the queried location handle has
\* a record, whose data it then holds whatever the ASN handle returned
C9_IndependentResolution ==
    (Answered /\ StrictIPv4(IpToLookup(req)) /\ AnyLoaded) =>
        /\ resp.status = 200 /\ resp.body = "GeoRecord"
        /\ got.asn.q = ipAsnDB.loaded
        /\ got.city.q = ipCityDB.loaded
        /\ IF got.asn.q /\ got.asn.rec.hit
           THEN /\ resp.network.asn = JsonValue(got.asn.rec.autonomous_system_number)
                /\ resp.network.organization =
                      JsonValue(got.asn.rec.autonomous_system_organization)
                /\ resp.network.isp = resp.network.organization
           ELSE resp.network = DefaultNetwork
        /\ IF got.city.q
           THEN IF got.city.rec.hit
                THEN CityFieldsFrom(resp.location, got.city.rec)
                ELSE resp.location = DefaultLocation
           ELSE IF got.country.q /\ got.country.rec.hit /\ got.country.rec.country.has
                THEN /\ resp.location.country = JsonValue(got.country.rec.country.en)
                     /\ resp.location.countryCode = JsonValue(got.country.rec.country.iso)
                ELSE resp.location = DefaultLocation

\* only the ASN handle is loaded and has a record: the location is the defaults
C9_Witness ==
    /\ resp.status = 200 /\ ~ipCityDB.loaded /\ ~ipCountryDB.loaded
    /\ got.asn.rec.hit
    /\ resp.location = DefaultLocation
    /\ resp.network.asn = got.asn.rec.autonomous_system_number
    /\ resp.network.asn # Undefined

----------------------------------------------------------------------------
(* Properties of the server with the updater running *)

\* the type a value of the response was read from
SrcType(v) == IF v.src = "template" THEN "asn" ELSE v.src

ResponseValues ==
    {resp.location[f] : f \in LocationFields} \cup {resp.network[f] : f \in NetworkFields}

\* C3: the fields of a GeoRecord that come from one database type all come
\* from the same generation of that type's database, also when that type is
\* being refreshed
C3_NoMixedGenerations ==
    resp.status = 200 =>
        \A t \in TypeSet :
            \A a, b \in {v \in ResponseValues : SrcType(v) = t} : a.gen = b.gen

\* a lookup answered from the city handle while the city file is being
\* overwritten with another generation
C3_Witness ==
    /\ resp.status = 200 /\ got.city.q /\ got.city.rec.hit
    /\ \E p \in Procs : pc[p] = "copying" /\ TypeOf(p) = "city"
    /\ dest[DbFile("city")].gen # ipCityDB.gen

\* C4: the file at a type's destination path is at every instant a complete
\* database
C4_DestinationAlwaysComplete ==
    \A t \in TypeSet :
        dest[DestFile(t)].exists => dest[DestFile(t)].complete

\* C5: when a refresh of a type has just ended successfully, a lookup that
\* consults that type is answered from the refreshed database
C5_LookupsServeRefreshed ==
    \A p \in Procs :
        (pc[p] = "ended" /\ outcome[p] = "ok" /\ resp.status = 200 /\ got[TypeOf(p)].q)
            => ipDB(TypeOf(p)) = Handle(dest[DestFile(TypeOf(p))].gen)

\* C10: when a refresh of a type has ended, with or without an error, neither
\* the type's scratch archive nor its scratch directory exists
C10_NoScratchLeft ==
    \A p \in Procs :
        pc[p] = "ended" =>
            (~archive[TypeOf(p)].exists /\ ~tempDir[TypeOf(p)].exists)

----------------------------------------------------------------------------
(* Properties of the updater *)

\* C11: when the extraction of a refresh starts, the type's scratch directory
\* holds no file, and the payload the search hands to the copy is one the
\* archive of this refresh was extracted to, never a file an earlier run left
C11_FreshScratch ==
    \A p \in Procs :
        /\ pc[p] = "extract" => tempDir[TypeOf(p)].files = {}
        /\ pc[p] = "copy" => mmdbFilePath[p] \in Payloads(archive[TypeOf(p)])

\* C12: the payload search succeeds only when the scratch tree holds exactly
\* one .mmdb file; with none or more than one the refresh fails and does not
\* reach the copy
C12_ExactlyOnePayload ==
    \A p \in Procs :
        pc[p] = "copy" => Cardinality(tempDir[TypeOf(p)].files) = 1

\* the files of a type: its archive, its scratch directory, its destination
FilesOf(t) == <<archive[t], tempDir[t], dest[DestFile(t)]>>

\* C13: a run refreshes the types one after the other and ends only after the
\* last one, whatever the outcome of each refresh (a failure leads to the next
\* type like a success does), and a step changes the files of a type only
\* while that type is the one being refreshed
C13_FailureIsolation ==
    [][ /\ \A p \in Procs :
              /\ cur'[p] # cur[p] =>
                    \/ cur'[p] = cur[p] + 1 /\ pc'[p] = "download"
                    \/ cur[p] = Len(Types) /\ cur'[p] = 0 /\ pc[p] = "ended"
              /\ (pc[p] = "catch" /\ pc'[p] # "catch") =>
                    (pc'[p] = "ended" /\ cur'[p] = cur[p])
              /\ (pc[p] = "ended" /\ pc'[p] # "ended" /\ cur[p] < Len(Types)) =>
                    (pc'[p] = "download" /\ cur'[p] = cur[p] + 1)
              /\ (pc[p] # "idle" /\ pc'[p] = "idle") =>
                    (pc[p] = "ended" /\ cur[p] = Len(Types))
        /\ \A t \in TypeSet :
              FilesOf(t)' # FilesOf(t) => \E p \in Procs : cur[p] > 0 /\ TypeOf(p) = t
      ]_vars

\* the refresh of the country database failed after the extraction (its
\* scratch directory is left, no destination file was written) and the same
\* run has refreshed the city database successfully
C13_Witness ==
    /\ runs = 1
    /\ tempDir["country"].exists /\ ~dest[DestFile("country")].exists
    /\ \E p \in Procs : /\ cur[p] > 0 /\ TypeOf(p) = "city"
                         /\ pc[p] = "ended" /\ outcome[p] = "ok"
    /\ dest[DestFile("city")].complete

\* the refresh process p is in has not reached the copy
NotYetCopying(p) == pc[p] \in {"download", "save", "mkdir", "extract", "find"}

\* the refresh process p is in has failed in the download, in the extraction
\* or in the payload search
FailedBeforeCopy(p) ==
    pc[p] \in {"catch", "ended"} /\ outcome[p] \in {"download", "extract", "find"}

\* C14: from the start of a refresh to its end with a download error, an
\* extraction error or a payload that is not found, no step changes the
\* type's destination file, and no step of the updater changes a handle of
\* the server: such a refresh goes from its start through steps before the
\* copy to the failure, and in none of these states does a step write the
\* destination file
C14_FailedRefreshChangesNothing ==
    [][ \A p \in Procs :
          /\ (NotYetCopying(p)' /\ ~NotYetCopying(p)) => pc[p] \in {"idle", "ended"}
          /\ (FailedBeforeCopy(p)' /\ ~FailedBeforeCopy(p)) => NotYetCopying(p)
          /\ (cur[p] > 0 /\ (NotYetCopying(p) \/ FailedBeforeCopy(p))) =>
                dest'[DestFile(TypeOf(p))] = dest[DestFile(TypeOf(p))]
          /\ pc'[p] # pc[p] =>
                <<ipCountryDB, ipCityDB, ipAsnDB>>' = <<ipCountryDB, ipCityDB, ipAsnDB>>
      ]_vars

\* a refresh has ended with "payload not found" for a type whose destination
\* file is a complete database the server has loaded
C14_Witness ==
    \E p \in Procs :
        /\ pc[p] = "ended" /\ outcome[p] = "find"
        /\ dest[DestFile(TypeOf(p))].complete
        /\ ipDB(TypeOf(p)) = Handle(dest[DestFile(TypeOf(p))].gen)

\* no updater process is running
NoneRunning == \A p \in Procs : pc[p] \in {"idle", "off"}

\* the files under data/ after a refresh of every type from release g
Refreshed(g) ==
    /\ dest = [f \in DataFiles |->
                 IF \E t \in TypeSet : f = DestFile(t) THEN Dest(g, TRUE) ELSE NoDest]
    /\ archive = [t \in TypeSet |-> NoArchive]
    /\ tempDir = [t \in TypeSet |-> NoDir]

\* C15: with the remote sources at the same release throughout and no failure
\* of the environment, the files under data/ after the second run of the
\* updater are the files after the first run: each type's destination file
\* holds that release, and there is no scratch archive or directory
C15_SecondRunChangesNothing ==
    (NoneRunning /\ runs >= 1 /\ remote = 1 /\ faults = 0) => Refreshed(1)

\* the second run has ended
C15_Witness ==
    NoneRunning /\ runs = 2 /\ remote = 1 /\ faults = 0 /\ Refreshed(1)

\* the refresh of a type that process p is in, from its download to the end
\* of its cleanup
InProgress(p, t) == cur[p] > 0 /\ TypeOf(p) = t /\ pc[p] # "ended"

\* C16: at no time are two refreshes of the same type in progress, however
\* the runs of the updater were started (by the cron service, by hand)
C16_OneRefreshPerType ==
    \A t \in TypeSet :
        \A p, q \in Procs : (InProgress(p, t) /\ InProgress(q, t)) => p = q

\* C17: the path the updater writes a type's database to is the path the
\* server loads that type from, so that the file at the server's path is the
\* file a successful refresh has just written, and no two types share a path
C17_OnePathPerType ==
    /\ \A p \in Procs :
          (pc[p] = "ended" /\ outcome[p] = "ok") =>
              /\ DestPath(TypeOf(p)) = DbPath(TypeOf(p))
              /\ dest[DbFile(TypeOf(p))] = Dest(mmdbFilePath[p], TRUE)
    /\ \A t, u \in TypeSet :
          t # u => (DestFile(t) # DestFile(u) /\ DbFile(t) # DbFile(u))

----------------------------------------------------------------------------
(* Properties of the network block and of the handles *)

\* C18: in every GeoRecord isp equals organization, asn is null exactly when
\* asName is "Unknown", and otherwise asName is "AS" followed by the asn of
\* the response
C18_NetworkBlockConsistent ==
    resp.status = 200 =>
        /\ resp.network.isp = resp.network.organization
        /\ (resp.network.asn = Null) <=> (resp.network.asName = Unknown)
        /\ resp.network.asName # Unknown =>
              /\ resp.network.asn.src = "asn"
              /\ resp.network.asName.v = "AS" \o resp.network.asn.v

\* C19: a handle that is loaded stays the same loaded handle in every later
\* state; a 200 is answered only with a handle loaded and a 503 only with
\* none, so that no 503 follows a 200
C19_HandlesOnlyLoad ==
    /\ [](resp.status = 200 => AnyLoaded)
    /\ [](resp.status = 503 => ~AnyLoaded)
    /\ [][\A t \in TypeSet : ipDB(t).loaded => ipDB(t)' = ipDB(t)]_vars

\* a 200 answered from the country handle after initDatabases has ended
\* without a city handle, while the country file is being overwritten and
\* the city file is there
C19_Witness ==
    /\ resp.status = 200
    /\ initPc = "done"
    /\ ipCountryDB.loaded /\ ~ipCityDB.loaded
    /\ dest[DbFile("country")].exists /\ ~dest[DbFile("country")].complete
    /\ dest[DbFile("city")].exists

\* the position of initDatabases is after the check and the load of type t
InitPast(t) ==
    CASE t = "country" -> initPc \in {"check_city", "open_city", "check_asn", "open_asn", "done"}
      [] t = "city" -> initPc \in {"check_asn", "open_asn", "done"}
      [] t = "asn" -> initPc = "done"

\* C20: initDatabases loads country, city, ASN in this order; a load that
\* fails ends it with the handles loaded so far unchanged, and once it has
\* ended no handle changes, so every later type stays not loaded whatever
\* files exist
C20_InitStopsAtFirstError ==
    /\ [](\A t \in TypeSet : ipDB(t).loaded => InitPast(t))
    /\ [][\A t \in TypeSet :
            (initPc = "open_" \o t /\ initPc' # initPc) =>
                IF OpenSucceeds(dest[DbFile(t)])
                THEN ipDB(t)'.loaded /\ initPc' = AfterCheck(t)
                ELSE /\ initPc' = "done"
                     /\ <<ipCountryDB, ipCityDB, ipAsnDB>>' = <<ipCountryDB, ipCityDB, ipAsnDB>>
        ]_vars
    /\ [][initPc = "done" =>
            /\ initPc' = "done"
            /\ <<ipCountryDB, ipCityDB, ipAsnDB>>' = <<ipCountryDB, ipCityDB, ipAsnDB>>
        ]_vars

\* a request is answered while initDatabases, with the country handle
\* loaded, is about to open a city file that is not a complete database, and
\* the ASN file is there
C20_Witness ==
    /\ resp.status = 200
    /\ initPc = "open_city" /\ ~OpenSucceeds(dest[DbFile("city")])
    /\ ipCountryDB.loaded
    /\ dest[DbFile("asn")].complete

====
